---- MODULE Spec2Model ----
(***************************************************************************)
(* A model of models/poolformer.py: the PoolFormer constructor (stage      *)
(* builder, network assembler, output wiring), the classifier accessors    *)
(* and the forward pass.  Tensors are symbolic: a tensor is its shape and  *)
(* the list of operators that produced it.  Stochastic-depth rates are     *)
(* computed in IEEE-754 binary64, bit by bit, as Python computes them.     *)
(***************************************************************************)
EXTENDS Integers, Sequences, FiniteSets, TLC

VARIABLES
    args,       \* the arguments of the PoolFormer(...) call
    environ,    \* os.environ.get('FORK_LAST3', None): "None" or "1"
    phase,      \* "new" (not yet constructed), "suspended" (at a pdb prompt),
                \* "built", "failed"
    self,       \* the model object: a function from attribute name to value
    last,       \* the last call made: its name, argument, and exception
    result,     \* what the last call returned
    files,      \* the checkpoint files: a function from path to content
    log,        \* the records the logger has been given, in order
    pending,    \* the pdb.set_trace() prompts the running call has yet to pass
    generator   \* torch's default random generator: the bits it gives next

vars == <<args, environ, phase, self, last, result, files, log, pending, generator>>

(***************************************************************************)
(* Bounds of the model.                                                    *)
(***************************************************************************)
MaxBlocks == 2      \* each stage has 0..MaxBlocks blocks
MaxMult == 1        \* input sides 32*1 .. 32*MaxMult, and 224
MaxClasses == 1     \* num_classes in 0..MaxClasses
MaxSide == 3        \* a block's input has 1..MaxSide rows and columns
MaxPool == 3        \* pool_size in 1..MaxPool

(***************************************************************************)
(* Python values.                                                          *)
(***************************************************************************)
None == "None"

Sum(s) == LET RECURSIVE go(_)
              go(n) == IF n = 0 THEN 0 ELSE go(n - 1) + s[n]
          IN go(Len(s))

\* layers[:index], index >= 0
Prefix(s, index) == SubSeq(s, 1, IF index < Len(s) THEN index ELSE Len(s))

FloorDiv(a, b) == a \div b

(***************************************************************************)
(* IEEE-754 binary64, non-negative finite values.  A double is zero or     *)
(* m * 2^e with m a 53-bit integer whose top bit is set; m is kept as its  *)
(* bits, most significant first.  Multiplication and division by a Python  *)
(* int are exact operations followed by one round-to-nearest-even.         *)
(***************************************************************************)
MantBits == 53

Zeros(n) == [j \in 1..n |-> 0]

FZero == [m |-> <<>>, e |-> 0]

IsZero(x) == x.m = <<>>

HexDigit(h) == <<(h \div 8) % 2, (h \div 4) % 2, (h \div 2) % 2, h % 2>>

HexBits(hs) == LET RECURSIVE go(_)
                   go(n) == IF n = 0 THEN <<>> ELSE go(n - 1) \o HexDigit(hs[n])
               IN go(Len(hs))

\* float.fromhex('0x1.<hs>p<p>') with 13 hex digits hs
FromHex(hs, p) == [m |-> <<1>> \o HexBits(hs), e |-> p - 52]

\* the bits b (length a multiple of 4) as hexadecimal digits, and back
BitsToHex(b) ==
    [d \in 1..(Len(b) \div 4) |->
        8 * b[4 * d - 3] + 4 * b[4 * d - 2] + 2 * b[4 * d - 1] + b[4 * d]]

HexToBits(h) ==
    [j \in 1..(4 * Len(h)) |-> HexDigit(h[(j + 3) \div 4])[((j - 1) % 4) + 1]]

ToHex(n) == LET RECURSIVE go(_)
                go(k) == IF k = 0 THEN <<>> ELSE Append(go(k \div 16), k % 16)
            IN go(n)

\* the hexadecimal digits of h * k, exactly
MulHex(h, k) ==
    LET RECURSIVE go(_, _)
        go(i, carry) == IF i = 0 THEN ToHex(carry)
                        ELSE Append(go(i - 1, (h[i] * k + carry) \div 16),
                                    (h[i] * k + carry) % 16)
    IN go(Len(h), 0)

\* long division of the hexadecimal digits h by n: quotient and remainder
DivHex(h, n) ==
    LET RECURSIVE go(_)
        go(j) == IF j = 0 THEN [q |-> <<>>, r |-> 0]
                 ELSE LET p == go(j - 1)
                      IN [q |-> Append(p.q, (16 * p.r + h[j]) \div n),
                          r |-> (16 * p.r + h[j]) % n]
    IN go(Len(h))

\* the mantissa bits of a double as 14 hexadecimal digits
MantHex(x) == BitsToHex(Zeros(3) \o x.m)

StripZeros(b) ==
    IF \A j \in 1..Len(b) : b[j] = 0 THEN <<>>
    ELSE LET f == CHOOSE j \in 1..Len(b) :
                      b[j] = 1 /\ \A i \in 1..(j - 1) : b[i] = 0
         IN SubSeq(b, f, Len(b))

\* b + 1 for a 53-bit b that is not all ones
IncBits(b) ==
    LET z == CHOOSE j \in 1..Len(b) :
                 b[j] = 0 /\ \A i \in (j + 1)..Len(b) : b[i] = 1
    IN [j \in 1..Len(b) |-> IF j < z THEN b[j] ELSE IF j = z THEN 1 ELSE 0]

\* round the exact value bits * 2^e (plus a sticky remainder) to binary64
RoundNearestEven(bits, sticky, e) ==
    LET L == Len(bits) IN
    IF L = 0 THEN FZero
    ELSE IF L <= MantBits
    THEN [m |-> bits \o Zeros(MantBits - L), e |-> e - (MantBits - L)]
    ELSE LET keep == SubSeq(bits, 1, MantBits)
             guard == bits[MantBits + 1]
             rest == sticky \/ \E j \in (MantBits + 2)..L : bits[j] = 1
             up == guard = 1 /\ (rest \/ keep[MantBits] = 1)
             e1 == e + (L - MantBits)
         IN IF ~up THEN [m |-> keep, e |-> e1]
            ELSE IF \A j \in 1..MantBits : keep[j] = 1
            THEN [m |-> <<1>> \o Zeros(MantBits - 1), e |-> e1 + 1]
            ELSE [m |-> IncBits(keep), e |-> e1]

\* x * k for a double x and an int k >= 0
FMulInt(x, k) ==
    IF IsZero(x) \/ k = 0 THEN FZero
    ELSE RoundNearestEven(StripZeros(HexToBits(MulHex(MantHex(x), k))),
                          FALSE, x.e)

\* x / n for a double x and an int n > 0
FDivInt(x, n) ==
    IF IsZero(x) THEN FZero
    ELSE LET d == DivHex(MantHex(x) \o Zeros(4), n)
         IN RoundNearestEven(StripZeros(HexToBits(d.q)), d.r # 0,
                             x.e - 16)

\* x > 0.
FPositive(x) == ~IsZero(x)

\* 1.0
FOne == FromHex(Zeros(13), 0)

\* x < y
FLess(x, y) ==
    IF IsZero(y) THEN FALSE
    ELSE IF IsZero(x) THEN TRUE
    ELSE \/ x.e < y.e
         \/ /\ x.e = y.e
            /\ \E j \in 1..MantBits :
                  /\ x.m[j] < y.m[j]
                  /\ \A i \in 1..(j - 1) : x.m[i] = y.m[i]

\* the hexadecimal digits of h1 + h2 and of h1 - h2 (h1 >= h2), for digit
\* sequences of one length
AddHex(h1, h2) ==
    LET RECURSIVE go(_, _)
        go(i, carry) == IF i = 0 THEN ToHex(carry)
                        ELSE Append(go(i - 1, (h1[i] + h2[i] + carry) \div 16),
                                    (h1[i] + h2[i] + carry) % 16)
    IN go(Len(h1), 0)

SubHex(h1, h2) ==
    LET RECURSIVE go(_, _)
        go(i, borrow) ==
            IF i = 0 THEN <<>>
            ELSE LET d == h1[i] - h2[i] - borrow
                 IN Append(go(i - 1, IF d < 0 THEN 1 ELSE 0), d % 16)
    IN go(Len(h1), 0)

\* the mantissa of x as hexadecimal digits in units of 2^e0, e0 <= x.e, in
\* width bits (a multiple of 4)
AlignedHex(x, e0, width) ==
    BitsToHex(Zeros(width - MantBits - (x.e - e0)) \o x.m \o Zeros(x.e - e0))

\* 4 * ceil(n / 4)
HexWidth(n) == 4 * ((n + 3) \div 4)

\* beyond this exponent gap the smaller operand is below half a unit in
\* the last place of the larger one
FarApart == 60

\* x + y for doubles x, y >= 0
FAdd(x, y) ==
    IF IsZero(x) THEN y
    ELSE IF IsZero(y) THEN x
    ELSE LET hi == IF x.e >= y.e THEN x ELSE y
             lo == IF x.e >= y.e THEN y ELSE x
             width == HexWidth(MantBits + (hi.e - lo.e))
         IN IF hi.e - lo.e > FarApart THEN hi
            ELSE RoundNearestEven(
                     StripZeros(HexToBits(AddHex(AlignedHex(hi, lo.e, width),
                                                 AlignedHex(lo, lo.e, width)))),
                     FALSE, lo.e)

\* x - y for doubles x > y >= 0
FAbsDiff(x, y) ==
    IF IsZero(y) THEN x
    ELSE LET e0 == IF x.e >= y.e THEN y.e ELSE x.e
             gap == IF x.e >= y.e THEN x.e - y.e ELSE y.e - x.e
             width == HexWidth(MantBits + gap)
         IN IF gap > FarApart THEN x
            ELSE RoundNearestEven(
                     StripZeros(HexToBits(SubHex(AlignedHex(x, e0, width),
                                                 AlignedHex(y, e0, width)))),
                     FALSE, e0)

\* A signed double: a sign and a magnitude.
Signed(neg, abs) == [neg |-> neg, abs |-> abs]

SZero == Signed(FALSE, FZero)

\* x - y for doubles x, y >= 0
FSub(x, y) ==
    IF x = y THEN SZero
    ELSE IF FLess(y, x) THEN Signed(FALSE, FAbsDiff(x, y))
    ELSE Signed(TRUE, FAbsDiff(y, x))

(***************************************************************************)
(* Python lists, indexed from 0, and the exceptions subscripting raises.   *)
(***************************************************************************)
Item(s, i) == s[i + 1]

\* the exception s[i] raises on a list s, or None
GetItemErr(s, i) ==
    IF i < 0 \/ i >= Len(s) THEN "IndexError" ELSE None

\* An argument that defaults to None is <<>> when omitted and <<v>> when
\* given the list v; subscripting None raises TypeError.
Omitted == <<>>

Given(v) == <<v>>

GetOptItemErr(o, i) ==
    IF o = Omitted THEN "TypeError" ELSE GetItemErr(o[1], i)

\* bool(v) for an environment value
Truthy(v) == v # None /\ v # ""

(***************************************************************************)
(* Objects: a function from the names of the attributes set so far to      *)
(* their values.                                                           *)
(***************************************************************************)
NewObject == [n \in {} |-> None]

HasAttr(obj, name) == name \in DOMAIN obj

SetAttr(obj, name, value) ==
    [n \in (DOMAIN obj) \cup {name} |-> IF n = name THEN value ELSE obj[n]]

(***************************************************************************)
(* Symbolic tensors: a shape and the operators applied so far.  A forward  *)
(* call returns a tensor, or raises.                                       *)
(***************************************************************************)
Tensor(shape, hist) == [raised |-> None, shape |-> shape, hist |-> hist]

Raise(exc) == [raised |-> exc, shape |-> <<>>, hist |-> <<>>]

Op(name, arg) == [op |-> name, arg |-> arg]

(***************************************************************************)
(* The modules.                                                            *)
(***************************************************************************)
Identity == [type |-> "Identity"]

GroupNorm(num_channels) == [type |-> "GroupNorm", num_channels |-> num_channels]

Linear(in_features, out_features) ==
    [type |-> "Linear", in_features |-> in_features,
     out_features |-> out_features]

PatchEmbed(patch_size, stride, padding, in_chans, embed_dim) ==
    [type |-> "PatchEmbed", patch_size |-> patch_size, stride |-> stride,
     padding |-> padding, in_chans |-> in_chans, embed_dim |-> embed_dim]

\* a convolution that forgets the padding
ConvOut_NoPadding(n, k, s, p) == FloorDiv(n - k, s) + 1

\* the output side of nn.Conv2d along one spatial dimension
ConvOut(n, k, s, p) == FloorDiv(n + 2 * p - k, s) + 1

PatchEmbed_forward(m, x) ==
    IF x.shape[2] # m.in_chans THEN Raise("RuntimeError")
    ELSE IF x.shape[3] + 2 * m.padding < m.patch_size
            \/ x.shape[4] + 2 * m.padding < m.patch_size
    THEN Raise("RuntimeError")
    ELSE Tensor(<<x.shape[1], m.embed_dim,
                  ConvOut(x.shape[3], m.patch_size, m.stride, m.padding),
                  ConvOut(x.shape[4], m.patch_size, m.stride, m.padding)>>,
                Append(x.hist, Op("PatchEmbed", m.embed_dim)))

GroupNorm_forward(m, x) ==
    IF x.shape[2] # m.num_channels THEN Raise("RuntimeError")
    ELSE Tensor(x.shape, Append(x.hist, Op("GroupNorm", m.num_channels)))

Linear_forward(m, x) ==
    IF x.shape[Len(x.shape)] # m.in_features THEN Raise("RuntimeError")
    ELSE Tensor(SubSeq(x.shape, 1, Len(x.shape) - 1) \o <<m.out_features>>,
                Append(x.hist, Op("Linear", m.out_features)))

\* a mean that keeps the two spatial dimensions
Mean_KeepDim(x) ==
    Tensor(<<x.shape[1], x.shape[2], 1, 1>>, Append(x.hist, Op("mean", 0)))

\* x.mean([-2, -1])
Mean(x) == Tensor(<<x.shape[1], x.shape[2]>>, Append(x.hist, Op("mean", 0)))

\* nn.Identity, nn.AvgPool2d, Pooling, Mlp and LayerNormChannel
AvgPool2d(kernel_size, stride, padding, count_include_pad) ==
    [type |-> "AvgPool2d", kernel_size |-> kernel_size, stride |-> stride,
     padding |-> padding, count_include_pad |-> count_include_pad]

\* a pool that also counts the padded cells of a window
Pooling_CountPad(pool_size) ==
    [type |-> "Pooling", pool_size |-> pool_size,
     pool |-> AvgPool2d(pool_size, 1, pool_size \div 2, TRUE)]

\* a pool without padding
Pooling_NoPadding(pool_size) ==
    [type |-> "Pooling", pool_size |-> pool_size,
     pool |-> AvgPool2d(pool_size, 1, 0, FALSE)]

Pooling(pool_size) ==
    [type |-> "Pooling", pool_size |-> pool_size,
     pool |-> AvgPool2d(pool_size, 1, pool_size \div 2, FALSE)]

Mlp(in_features, hidden_features) ==
    [type |-> "Mlp", in_features |-> in_features,
     hidden_features |-> hidden_features]

LayerNormChannel(num_channels) ==
    [type |-> "LayerNormChannel", num_channels |-> num_channels]

DropPath(drop_prob) == [type |-> "DropPath", drop_prob |-> drop_prob]

\* norm_layer(dim), norm_layer being the class GroupNorm or LayerNormChannel
NormLayer(norm_layer, dim) ==
    IF norm_layer = "LayerNormChannel" THEN LayerNormChannel(dim)
    ELSE GroupNorm(dim)

\* layer_scale_init_value * torch.ones((dim)): every entry is this double
LayerScale(layer_scale_init_value) == layer_scale_init_value

PoolFormerBlock(dim, pool_size, mlp_ratio, norm_layer, drop_path, use_layer_scale, layer_scale_init_value) ==
    LET block == [type |-> "PoolFormerBlock", dim |-> dim,
                  mlp_ratio |-> mlp_ratio,
                  norm1 |-> NormLayer(norm_layer, dim),
                  token_mixer |-> Pooling(pool_size),
                  norm2 |-> NormLayer(norm_layer, dim),
                  mlp_hidden_dim |-> dim * mlp_ratio,
                  mlp |-> Mlp(dim, dim * mlp_ratio),
                  drop_path |-> IF FPositive(drop_path) THEN DropPath(drop_path)
                                ELSE Identity,
                  use_layer_scale |-> use_layer_scale]
    IN IF use_layer_scale
       THEN SetAttr(SetAttr(block, "layer_scale_1",
                            LayerScale(layer_scale_init_value)),
                    "layer_scale_2", LayerScale(layer_scale_init_value))
       ELSE block

(***************************************************************************)
(* Arithmetic on symbolic tensors.  A tensor whose history starts with the *)
(* operator "nonfinite" holds an infinity or a NaN; the tensor of zeros    *)
(* has the history <<zeros>>.  0 * x is the tensor of zeros only for a     *)
(* finite x, and x + 0 is x.                                               *)
(***************************************************************************)
Finite(x) == \A i \in 1..Len(x.hist) : x.hist[i].op # "nonfinite"

ZeroTensor(shape) == Tensor(shape, <<Op("zeros", 0)>>)

IsZeroTensor(x) == Len(x.hist) = 1 /\ x.hist[1].op = "zeros"

\* the shape two shapes of one rank broadcast to, <<>> when they do not
BroadcastShape(s, t) ==
    IF s = t THEN s
    ELSE IF \A i \in 1..Len(s) : s[i] = t[i] \/ s[i] = 1 \/ t[i] = 1
    THEN [i \in 1..Len(s) |-> IF s[i] = 1 THEN t[i] ELSE s[i]]
    ELSE <<>>

\* the per-channel vector scale, as [C, 1, 1], times x
ScaleBy(scale, x) ==
    IF x.raised # None THEN x
    ELSE IF IsZero(scale) /\ Finite(x) THEN ZeroTensor(x.shape)
    ELSE Tensor(x.shape,
                Append(x.hist,
                       [op |-> "layer_scale", arg |-> 0, value |-> scale]))

\* acc + d, where d was computed from the tensor read
TAdd(acc, d, read) ==
    IF acc.raised # None THEN acc
    ELSE IF d.raised # None THEN d
    ELSE LET shape == BroadcastShape(acc.shape, d.shape)
         IN IF shape = <<>> THEN Raise("RuntimeError")
            ELSE IF IsZeroTensor(d) /\ shape = acc.shape THEN acc
            ELSE Tensor(shape,
                        Append(acc.hist,
                               [op |-> "add", arg |-> Len(read.hist),
                                branch |-> SubSeq(d.hist, Len(read.hist) + 1,
                                                  Len(d.hist))]))

(***************************************************************************)
(* The forward functions of the modules.  rt is what a call depends on     *)
(* besides its input: the training flag, the random bits DropPath draws    *)
(* (a bit sequence, read cyclically) and the number of the DropPath call.  *)
(***************************************************************************)
Runtime(training, rnd) == [training |-> training, rnd |-> rnd, call |-> 0]

LayerNormChannel_forward(m, x) ==
    IF x.shape[2] # m.num_channels /\ x.shape[2] # 1 /\ m.num_channels # 1
    THEN Raise("RuntimeError")
    ELSE Tensor(<<x.shape[1],
                  IF x.shape[2] = 1 THEN m.num_channels ELSE x.shape[2],
                  x.shape[3], x.shape[4]>>,
                Append(x.hist, Op("LayerNormChannel", m.num_channels)))

Mlp_forward(m, x) ==
    IF x.shape[2] # m.in_features THEN Raise("RuntimeError")
    ELSE Tensor(x.shape, Append(x.hist, Op("Mlp", m.hidden_features)))

Min(a, b) == IF a < b THEN a ELSE b

Max(a, b) == IF a > b THEN a ELSE b

\* the window of output position o (from 1) along a side of n cells:
\* the in-bounds cells lo+1..hi, and the cells counted with the padding
PoolWindow(m, n, o) ==
    LET start == (o - 1) * m.stride - m.padding
        end == Min(start + m.kernel_size, n + m.padding)
    IN [lo |-> Max(start, 0), hi |-> Min(end, n), span |-> end - start]

\* one output value: the cells of the window are summed in row-major order
\* and the sum is divided by the divide factor
AvgPoolValue(m, val, H, W, i, j) ==
    LET r == PoolWindow(m, H, i)
        c == PoolWindow(m, W, j)
        nr == r.hi - r.lo
        nc == c.hi - c.lo
        cell(q) == <<r.lo + 1 + ((q - 1) \div nc), c.lo + 1 + ((q - 1) % nc)>>
        RECURSIVE sum(_)
        sum(q) == IF q = 0 THEN FZero ELSE FAdd(sum(q - 1), val[cell(q)])
        divide_factor == IF m.count_include_pad THEN r.span * c.span
                         ELSE nr * nc
    IN FDivInt(sum(nr * nc), divide_factor)

\* a tensor that carries its values has the shape [1, 1, H, W] and the
\* field val, a function from <<row, column>> to a double
HasValues(x) == "val" \in DOMAIN x

AvgPool2d_forward(m, x) ==
    LET H == x.shape[3]
        W == x.shape[4]
        Ho == ConvOut(H, m.kernel_size, m.stride, m.padding)
        Wo == ConvOut(W, m.kernel_size, m.stride, m.padding)
        y == Tensor(<<x.shape[1], x.shape[2], Ho, Wo>>,
                    Append(x.hist, Op("AvgPool2d", m.kernel_size)))
    IN IF 2 * m.padding > m.kernel_size \/ Ho < 1 \/ Wo < 1
       THEN Raise("RuntimeError")
       ELSE IF ~HasValues(x) THEN y
       ELSE SetAttr(y, "val",
                    [q \in (1..Ho) \X (1..Wo) |->
                        AvgPoolValue(m, x.val, H, W, q[1], q[2])])

\* y - x with broadcasting; op is the entry the result's history gets
TSub(y, x, op) ==
    LET shape == BroadcastShape(y.shape, x.shape)
        at(n, i) == IF n = 1 THEN 1 ELSE i
    IN IF y.raised # None THEN y
       ELSE IF shape = <<>> THEN Raise("RuntimeError")
       ELSE IF ~HasValues(x) THEN Tensor(shape, Append(x.hist, op))
       ELSE SetAttr(Tensor(shape, Append(x.hist, op)), "val",
                    [q \in (1..shape[3]) \X (1..shape[4]) |->
                        FSub(y.val[<<at(y.shape[3], q[1]), at(y.shape[4], q[2])>>],
                             x.val[<<at(x.shape[3], q[1]),
                                     at(x.shape[4], q[2])>>])])

\* self.pool(x) - x
Pooling_forward(m, x) ==
    TSub(AvgPool2d_forward(m.pool, x), x, Op("Pooling", m.pool_size))

\* DropPath that draws its mask in inference mode as well
DropPath_forward_AlwaysTraining(m, x, rt) ==
    LET keep == [b \in 1..x.shape[1] |->
                    rt.rnd[((rt.call + b) % Len(rt.rnd)) + 1]]
    IN IF IsZero(m.drop_prob) \/ IsZeroTensor(x) THEN x
       ELSE IF Finite(x) /\ \A b \in 1..x.shape[1] : keep[b] = 0
       THEN ZeroTensor(x.shape)
       ELSE Tensor(x.shape,
                   Append(x.hist, [op |-> "DropPath", arg |-> 0, keep |-> keep]))

\* x itself when drop_prob = 0 or in inference mode; otherwise sample b is
\* multiplied by keep[b] / (1 - drop_prob), keep[b] a random bit, which
\* leaves a tensor of zeros as it is
DropPath_forward(m, x, rt) ==
    LET keep == [b \in 1..x.shape[1] |->
                    rt.rnd[((rt.call + b) % Len(rt.rnd)) + 1]]
    IN IF IsZero(m.drop_prob) \/ ~rt.training \/ IsZeroTensor(x) THEN x
       ELSE IF Finite(x) /\ \A b \in 1..x.shape[1] : keep[b] = 0
       THEN ZeroTensor(x.shape)
       ELSE Tensor(x.shape,
                   Append(x.hist, [op |-> "DropPath", arg |-> 0, keep |-> keep]))

\* the modules a block calls; a call whose argument raised does not happen
BlockCall(m, x, rt) ==
    IF x.raised # None THEN x
    ELSE CASE m.type = "GroupNorm" -> GroupNorm_forward(m, x)
           [] m.type = "Pooling" -> Pooling_forward(m, x)
           [] m.type = "Mlp" -> Mlp_forward(m, x)
           [] m.type = "DropPath" -> DropPath_forward(m, x, rt)
           [] m.type = "Identity" -> x
           [] m.type = "LayerNormChannel" -> LayerNormChannel_forward(m, x)

\* a block that scales its first branch only
Scaled_FirstOnly(m, call, x) ==
    IF ~m.use_layer_scale \/ call = 2 THEN x
    ELSE ScaleBy(m.layer_scale_1, x)

\* self.layer_scale_N.unsqueeze(-1).unsqueeze(-1) * x when the block has
\* layer scales, x itself when it has none
Scaled(m, call, x) ==
    IF ~m.use_layer_scale THEN x
    ELSE ScaleBy(IF call = 1 THEN m.layer_scale_1 ELSE m.layer_scale_2, x)

\* drop_path(layer_scale * mixer(norm(read))), the branch number call of
\* the block m
Branch(m, read, rt, call) ==
    BlockCall(m.drop_path,
              Scaled(m, call,
                     BlockCall(IF call = 1 THEN m.token_mixer ELSE m.mlp,
                               BlockCall(IF call = 1 THEN m.norm1 ELSE m.norm2,
                                         read, rt),
                               rt)),
              [rt EXCEPT !.call = call])

\* x = x + branch(x)
Residual(m, x, rt, call) == TAdd(x, Branch(m, x, rt, call), x)

\* a block whose second update reads the block's input again
PoolFormerBlock_forward_ReadsInput(m, x, rt) ==
    TAdd(Residual(m, x, rt, 1), Branch(m, x, rt, 2), x)

PoolFormerBlock_forward(m, x, rt) ==
    Residual(m, Residual(m, x, rt, 1), rt, 2)

(***************************************************************************)
(* The stage builder.                                                      *)
(***************************************************************************)
\* a rate that restarts from 0 in every stage
block_dpr_PerStage(drop_path_rate, block_idx, index, layers) ==
    FDivInt(FMulInt(drop_path_rate, block_idx), Sum(layers) - 1)

\* a rate interpolated over sum(layers) steps instead of sum(layers) - 1
block_dpr_OffByOne(drop_path_rate, block_idx, index, layers) ==
    IF Sum(layers) = 0 THEN FZero
    ELSE FDivInt(FMulInt(drop_path_rate,
                         block_idx + Sum(Prefix(layers, index))),
                 Sum(layers))

\* a rate that follows the stage alone: block_idx is left out
block_dpr_StageOnly(drop_path_rate, block_idx, index, layers) ==
    FDivInt(FMulInt(drop_path_rate, Sum(Prefix(layers, index))),
            Sum(layers) - 1)

\* a rate interpolated from the second step on, so that the first block of
\* the model gets a non-zero rate
block_dpr_FromOne(drop_path_rate, block_idx, index, layers) ==
    FDivInt(FMulInt(drop_path_rate,
                    block_idx + 1 + Sum(Prefix(layers, index))),
            Sum(layers) - 1)

\* drop_path_rate * (block_idx + sum(layers[:index])) / (sum(layers) - 1)
block_dpr(drop_path_rate, block_idx, index, layers) ==
    FDivInt(FMulInt(drop_path_rate, block_idx + Sum(Prefix(layers, index))),
            Sum(layers) - 1)

basic_blocks(dim, index, layers, pool_size, mlp_ratio, norm_layer, drop_path_rate, use_layer_scale, layer_scale_init_value) ==
    IF Item(layers, index) > 0 /\ Sum(layers) - 1 = 0
    THEN [raised |-> "ZeroDivisionError"]
    ELSE [raised |-> None, type |-> "Sequential", index |-> index,
          blocks |-> [b \in 1..Item(layers, index) |->
                         PoolFormerBlock(dim, pool_size, mlp_ratio, norm_layer,
                             block_dpr(drop_path_rate, b - 1, index, layers),
                             use_layer_scale, layer_scale_init_value)]]

\* y with op appended to its history, y itself when it raised
Mark(y, op) ==
    IF y.raised # None THEN y ELSE Tensor(y.shape, Append(y.hist, op))

Sequential_forward(m, x, rt) ==
    LET RECURSIVE go(_)
        go(n) == IF n = 0 THEN x
                 ELSE PoolFormerBlock_forward(m.blocks[n], go(n - 1), rt)
    IN Mark(go(Len(m.blocks)), Op("stage", m.index))

\* module(x)
Call(m, x, rt) ==
    CASE m.type = "Identity" -> x
      [] m.type = "GroupNorm" -> GroupNorm_forward(m, x)
      [] m.type = "LayerNormChannel" -> LayerNormChannel_forward(m, x)
      [] m.type = "Linear" -> Linear_forward(m, x)
      [] m.type = "PatchEmbed" -> PatchEmbed_forward(m, x)
      [] m.type = "Sequential" -> Sequential_forward(m, x, rt)

\* f'norm{idx}'
NormName(idx) == "norm" \o ToString(idx)

(***************************************************************************)
(* PoolFormer.__init__                                                     *)
(***************************************************************************)
\* a downsampler only where the flag asks for one
NeedsDownsample_FlagOnly(downsample, dim_in, dim_out) == downsample

\* downsamples[i] or embed_dims[i] != embed_dims[i+1]
NeedsDownsample(downsample, dim_in, dim_out) ==
    downsample \/ dim_in # dim_out

\* the loop over the stages, from stage i on, with the modules so far
RECURSIVE Assemble(_, _, _)
Assemble(a, i, network) ==
    IF i >= Len(a.layers) THEN [raised |-> None, network |-> network]
    ELSE IF GetItemErr(a.embed_dims, i) # None
    THEN [raised |-> GetItemErr(a.embed_dims, i)]
    ELSE IF GetOptItemErr(a.mlp_ratios, i) # None
    THEN [raised |-> GetOptItemErr(a.mlp_ratios, i)]
    ELSE LET stage == basic_blocks(Item(a.embed_dims, i), i, a.layers,
                                   a.pool_size, Item(a.mlp_ratios[1], i),
                                   a.norm_layer, a.drop_path_rate,
                                   a.use_layer_scale,
                                   a.layer_scale_init_value)
             down == PatchEmbed(a.down_patch_size, a.down_stride, a.down_pad,
                                Item(a.embed_dims, i),
                                Item(a.embed_dims, i + 1))
         IN IF stage.raised # None THEN [raised |-> stage.raised]
            ELSE IF i >= Len(a.layers) - 1
            THEN [raised |-> None, network |-> Append(network, stage)]
            ELSE IF GetItemErr(a.downsamples, i) # None
            THEN [raised |-> GetItemErr(a.downsamples, i)]
            ELSE IF GetItemErr(a.embed_dims, i + 1) # None
            THEN [raised |-> GetItemErr(a.embed_dims, i + 1)]
            ELSE IF NeedsDownsample(Item(a.downsamples, i),
                                    Item(a.embed_dims, i),
                                    Item(a.embed_dims, i + 1))
            THEN Assemble(a, i + 1, network \o <<stage, down>>)
            ELSE Assemble(a, i + 1, Append(network, stage))

\* a head that is linear for num_classes = 0 as well
ClassifierHead_AlwaysLinear(embed_dim, num_classes) ==
    IF num_classes >= 0 THEN Linear(embed_dim, num_classes) ELSE Identity

\* nn.Linear(embed_dims[-1], num_classes) if num_classes > 0 else nn.Identity()
ClassifierHead(embed_dim, num_classes) ==
    IF num_classes > 0 THEN Linear(embed_dim, num_classes) ELSE Identity

out_indices == <<0, 2, 4, 6>>

\* the per-output norm layers of the feature-pyramid mode
RECURSIVE AddNorms(_, _, _, _)
AddNorms(a, env, i_emb, obj) ==
    IF i_emb >= Len(out_indices) THEN [raised |-> None, self |-> obj]
    ELSE IF i_emb = 0 /\ Truthy(env)
    THEN AddNorms(a, env, i_emb + 1,
                  SetAttr(obj, NormName(Item(out_indices, i_emb)), Identity))
    ELSE IF GetItemErr(a.embed_dims, i_emb) # None
    THEN [raised |-> GetItemErr(a.embed_dims, i_emb)]
    ELSE AddNorms(a, env, i_emb + 1,
                  SetAttr(obj, NormName(Item(out_indices, i_emb)),
                          NormLayer(a.norm_layer, Item(a.embed_dims, i_emb))))

\* the constructor up to self.init_cfg = copy.deepcopy(init_cfg); the call
\* of init_weights that follows is in LoadOnInit
PoolFormer__init__(a, env) ==
    LET s0 == SetAttr(NewObject, "training", TRUE)
        s1 == IF ~a.fork_feat
              THEN SetAttr(s0, "num_classes", a.num_classes)
              ELSE s0
        s2 == SetAttr(s1, "fork_feat", a.fork_feat)
        s3 == SetAttr(s2, "patch_embed",
                      PatchEmbed(a.in_patch_size, a.in_stride, a.in_pad, 3,
                                 Item(a.embed_dims, 0)))
        net == Assemble(a, 0, <<>>)
        s4 == SetAttr(s3, "network", net.network)
        last_dim == Item(a.embed_dims, Len(a.embed_dims) - 1)
        s5 == SetAttr(SetAttr(s4, "norm", NormLayer(a.norm_layer, last_dim)),
                      "head",
                      ClassifierHead(last_dim, a.num_classes))
        forked == AddNorms(a, env, 0, SetAttr(s4, "out_indices", out_indices))
    IN IF GetItemErr(a.embed_dims, 0) # None
       THEN [raised |-> GetItemErr(a.embed_dims, 0), self |-> NewObject]
       ELSE IF net.raised # None
       THEN [raised |-> net.raised, self |-> NewObject]
       ELSE IF ~a.fork_feat
       THEN [raised |-> None, self |-> SetAttr(s5, "init_cfg", a.init_cfg)]
       ELSE IF forked.raised # None
       THEN [raised |-> forked.raised, self |-> NewObject]
       ELSE [raised |-> None,
             self |-> SetAttr(forked.self, "init_cfg", a.init_cfg)]

(***************************************************************************)
(* Parameters and checkpoints.  A parameter is named as state_dict() names *)
(* it; its value is the one the constructor gave it until load_state_dict  *)
(* copies a checkpoint entry over it.                                      *)
(***************************************************************************)
\* the parameters of a norm, a linear layer or a patch embedding
LeafParams(m) ==
    CASE m.type \in {"GroupNorm", "LayerNormChannel", "Linear"} ->
             {"weight", "bias"}
      [] m.type = "PatchEmbed" -> {"proj.weight", "proj.bias"}
      [] OTHER -> {}

Under(prefix, names) == {prefix \o "." \o n : n \in names}

BlockParams(m) ==
    Under("norm1", LeafParams(m.norm1)) \cup Under("norm2", LeafParams(m.norm2))
    \cup {"mlp.fc1.weight", "mlp.fc1.bias", "mlp.fc2.weight", "mlp.fc2.bias"}
    \cup (IF m.use_layer_scale THEN {"layer_scale_1", "layer_scale_2"} ELSE {})

ModuleParams(m) ==
    IF m.type = "Sequential"
    THEN UNION {Under(ToString(j - 1), BlockParams(m.blocks[j])) :
                   j \in 1..Len(m.blocks)}
    ELSE LeafParams(m)

\* the attributes of a PoolFormer that are not modules
PlainAttrs ==
    {"training", "num_classes", "fork_feat", "out_indices", "init_cfg",
     "loaded"}

\* self.state_dict().keys()
state_dict_keys(obj) ==
    UNION {Under(n, LeafParams(obj[n])) :
              n \in DOMAIN obj \ (PlainAttrs \cup {"network"})}
    \cup UNION {Under("network." \o ToString(i - 1),
                      ModuleParams(obj["network"][i])) :
                   i \in 1..Len(obj["network"])}

Initialized == "initialized"

\* a state dict without entries
NoEntries == [k \in {} |-> Initialized]

\* the checkpoint entries copied into the model so far
Loaded(obj) == IF HasAttr(obj, "loaded") THEN obj["loaded"] ELSE NoEntries

\* the value of the parameter named k
Parameter(obj, k) ==
    IF k \in DOMAIN Loaded(obj) THEN Loaded(obj)[k] ELSE Initialized

\* the two kinds of checkpoint entry: a tensor of the shape the model has
\* for that name, and one of another shape
Saved == "saved"

SavedOtherShape == "saved of another shape"

\* nn.Module.load_state_dict(state_dict, strict): entries of matching name
\* and shape are copied; a shape mismatch raises after the copies, and so do
\* missing or unexpected names when strict
load_state_dict(obj, state_dict, strict) ==
    LET keys == state_dict_keys(obj)
        names == DOMAIN state_dict
        copied == {k \in keys \cap names : state_dict[k] = Saved}
    IN [raised |-> IF copied # keys \cap names
                      \/ (strict /\ names # keys) THEN "RuntimeError"
                   ELSE None,
        self |-> SetAttr(obj, "loaded",
                         [k \in copied \cup DOMAIN Loaded(obj) |->
                             IF k \in copied THEN state_dict[k]
                             ELSE Loaded(obj)[k]]),
        missing_keys |-> keys \ names,
        unexpected_keys |-> names \ keys]

\* a checkpoint file: the dict torch.load gives, as its top-level keys
\* 'state_dict' and 'model' (when present) and its remaining entries
Checkpoint(top, state_dict, model, rest) ==
    [top |-> top, state_dict |-> state_dict, model |-> model, rest |-> rest]

\* lines 534-539: the state dict inside the checkpoint
StateDictOf(ckpt) ==
    IF "state_dict" \in ckpt.top THEN ckpt.state_dict
    ELSE IF "model" \in ckpt.top THEN ckpt.model
    ELSE ckpt.rest

\* get_root_logger and _load_checkpoint are bound only if the import of
\* mmseg or of mmdet succeeded
Importable(fs) == "mmseg" \in DOMAIN fs \/ "mmdet" \in DOMAIN fs

NoWeightsWarning ==
    [level |-> "warning", about |-> "No pre-trained weights"]

\* lines 541-547: the two lists of keys are bound and not used
init_weights_loaded(r, lg) == [raised |-> r.raised, self |-> r.self, log |-> lg]

\* lines 532-543, for the path chosen
init_weights_from(obj, ckpt_path, fs, lg) ==
    IF ckpt_path \notin DOMAIN fs
    THEN [raised |-> "OSError", self |-> obj, log |-> lg]
    ELSE init_weights_loaded(
             load_state_dict(obj, StateDictOf(fs[ckpt_path]), FALSE), lg)

\* self.init_weights(pretrained); returns [raised, self, log].  With
\* init_cfg None and a pretrained path, 'checkpoint' in None raises
\* TypeError, so the elif branch at line 529 is never taken.
init_weights(obj, pretrained, fs, lg) ==
    IF ~Importable(fs)
    THEN [raised |-> "NameError", self |-> obj, log |-> lg]
    ELSE IF obj["init_cfg"] = Omitted /\ pretrained = None
    THEN [raised |-> None, self |-> obj, log |-> Append(lg, NoWeightsWarning)]
    ELSE IF obj["init_cfg"] = Omitted
    THEN [raised |-> "TypeError", self |-> obj, log |-> lg]
    ELSE IF "checkpoint" \notin DOMAIN obj["init_cfg"][1]
    THEN [raised |-> "AssertionError", self |-> obj, log |-> lg]
    ELSE init_weights_from(obj, obj["init_cfg"][1].checkpoint, fs, lg)

\* an exception leaves the constructor without an object
Raising(r) ==
    IF r.raised # None THEN [r EXCEPT !.self = NewObject] ELSE r

\* lines 499-503, after the part r of the constructor: self.init_weights()
\* is called without the pretrained argument
LoadOnInit(a, r, fs, lg) ==
    IF r.raised # None
    THEN [raised |-> r.raised, self |-> NewObject, log |-> lg]
    ELSE IF a.fork_feat /\ (a.init_cfg # Omitted \/ a.pretrained # None)
    THEN Raising(init_weights(r.self, None, fs, lg))
    ELSE [raised |-> None, self |-> r.self, log |-> lg]

\* PoolFormer(...) with the files fs and the log lg; returns
\* [raised, self, log]
Constructed(a, env, fs, lg) == LoadOnInit(a, PoolFormer__init__(a, env), fs, lg)

(***************************************************************************)
(* PoolFormer.forward and its parts.                                       *)
(***************************************************************************)
forward_embeddings(obj, x, rt) == Call(obj["patch_embed"], x, rt)

\* the end of one round of the loop: x is the output of module idx, which
\* is normalised and collected at an output index of feature-pyramid mode
forward_tokens_out(obj, idx, outs, x, rt) ==
    IF x.raised # None THEN [raised |-> x.raised, x |-> x, outs |-> outs]
    ELSE IF obj["fork_feat"]
            /\ \E j \in 1..Len(obj["out_indices"]) :
                   obj["out_indices"][j] = idx
    THEN IF ~HasAttr(obj, NormName(idx))
         THEN [raised |-> "AttributeError", x |-> x, outs |-> outs]
         ELSE LET x_out == Call(obj[NormName(idx)], x, rt)
              IN [raised |-> x_out.raised, x |-> x,
                  outs |-> Append(outs, x_out)]
    ELSE [raised |-> None, x |-> x, outs |-> outs]

\* one round of the loop, after the rounds that gave p
forward_tokens_step(obj, idx, p, rt) ==
    IF p.raised # None THEN p
    ELSE forward_tokens_out(obj, idx, p.outs,
                            Call(obj["network"][idx + 1], p.x, rt), rt)

\* the loop over self.network; returns the running tensor and the outputs
\* collected so far
forward_tokens(obj, x0, rt) ==
    LET RECURSIVE go(_)
        go(n) ==
            IF n = 0 THEN [raised |-> x0.raised, x |-> x0, outs |-> <<>>]
            ELSE forward_tokens_step(obj, n - 1, go(n - 1), rt)
    IN go(Len(obj["network"]))

\* self.head(x.mean([-2, -1])) for the normalised x
forward_cls(obj, x, rt) ==
    IF x.raised # None THEN [raised |-> x.raised, value |-> None]
    ELSE IF ~HasAttr(obj, "head")
    THEN [raised |-> "AttributeError", value |-> None]
    ELSE LET cls_out == Call(obj["head"], Mean(x), rt)
         IN IF cls_out.raised # None
            THEN [raised |-> cls_out.raised, value |-> None]
            ELSE [raised |-> None, value |-> cls_out]

\* what forward does with the result t of forward_tokens
forward_out(obj, t, rt) ==
    IF t.raised # None THEN [raised |-> t.raised, value |-> None]
    ELSE IF obj["fork_feat"] THEN [raised |-> None, value |-> t.outs]
    ELSE IF ~HasAttr(obj, "norm")
    THEN [raised |-> "AttributeError", value |-> None]
    ELSE forward_cls(obj, Call(obj["norm"], t.x, rt), rt)

\* returns [raised, value]: value is a list of tensors in feature-pyramid
\* mode and one tensor otherwise
forward(obj, input, rnd) ==
    forward_out(obj,
                forward_tokens(obj,
                               forward_embeddings(obj, input,
                                   Runtime(obj["training"], rnd)),
                               Runtime(obj["training"], rnd)),
                Runtime(obj["training"], rnd))

(***************************************************************************)
(* The classifier accessors.                                               *)
(***************************************************************************)
get_classifier(obj) ==
    IF HasAttr(obj, "head") THEN [raised |-> None, value |-> obj["head"]]
    ELSE [raised |-> "AttributeError", value |-> None]

\* self.num_classes is assigned first; self.embed_dim is read only when
\* num_classes > 0
reset_classifier(obj, num_classes) ==
    LET s1 == SetAttr(obj, "num_classes", num_classes)
    IN IF num_classes > 0
       THEN IF HasAttr(s1, "embed_dim")
            THEN [raised |-> None,
                  self |-> SetAttr(s1, "head",
                                   Linear(s1["embed_dim"], num_classes))]
            ELSE [raised |-> "AttributeError", self |-> s1]
       ELSE [raised |-> None, self |-> SetAttr(s1, "head", Identity)]

(***************************************************************************)
(* The calls the model is exercised with.                                  *)
(***************************************************************************)
\* the default layer_scale_init_value, 1e-5
LayerScaleInit == FromHex(<<4, 15, 8, 11, 5, 8, 8, 14, 3, 6, 8, 15, 1>>, -17)

\* the states of the random generator: the bits it gives, read cyclically.
\* Every sample of every branch is kept, or a block's branches are dropped
\* and kept in turn
AllKept == <<1>>

Streams == {AllKept, <<0, 1>>, <<1, 0>>}

\* the generator after a call has drawn from it
Advance(rnd) == Append(Tail(rnd), Head(rnd))

\* the module m draws random bits when it is called: it is a DropPath
\* that does not return a tensor as it is
Draws(m, training) ==
    /\ m.type = "DropPath"
    /\ DropPath_forward(m, Tensor(<<1, 1, 1, 1>>, <<>>),
                        Runtime(training, <<0>>))
          # Tensor(<<1, 1, 1, 1>>, <<>>)

\* a forward call of the model draws random bits
DrawsBits(obj) ==
    \E i \in 1..Len(obj["network"]) :
        /\ obj["network"][i].type = "Sequential"
        /\ \E b \in 1..Len(obj["network"][i].blocks) :
              Draws(obj["network"][i].blocks[b].drop_path, obj["training"])

\* 0.1, 0.2 and 0.5 as float.hex() prints them
Rate01 == FromHex(<<9, 9, 9, 9, 9, 9, 9, 9, 9, 9, 9, 9, 10>>, -4)
Rate02 == FromHex(<<9, 9, 9, 9, 9, 9, 9, 9, 9, 9, 9, 9, 10>>, -3)
Rate05 == FromHex(<<0, 0, 0, 0, 0, 0, 0, 0, 0, 0, 0, 0, 0>>, -1)

DropPathRates == {FZero, Rate01, Rate02, Rate05}

\* the defaults of the stem and downsampler settings, and another choice
DefaultPatch == [in_patch_size |-> 7, in_stride |-> 4, in_pad |-> 2,
                 down_patch_size |-> 3, down_stride |-> 2, down_pad |-> 1]

OtherPatch == [in_patch_size |-> 4, in_stride |-> 4, in_pad |-> 0,
               down_patch_size |-> 3, down_stride |-> 1, down_pad |-> 1]

PresetDims == <<64, 128, 320, 512>>

Args(layers, embed_dims, mlp_ratios, downsamples, num_classes, drop_path_rate, fork_feat, patch) ==
    [layers |-> layers, embed_dims |-> embed_dims, mlp_ratios |-> mlp_ratios,
     downsamples |-> downsamples, pool_size |-> 3, norm_layer |-> "GroupNorm",
     num_classes |-> num_classes, use_layer_scale |-> TRUE,
     layer_scale_init_value |-> LayerScaleInit, init_cfg |-> Omitted,
     pretrained |-> None,
     drop_path_rate |-> drop_path_rate, fork_feat |-> fork_feat,
     in_patch_size |-> patch.in_patch_size, in_stride |-> patch.in_stride,
     in_pad |-> patch.in_pad, down_patch_size |-> patch.down_patch_size,
     down_stride |-> patch.down_stride, down_pad |-> patch.down_pad]

\* calls that vary the assembly: widths, downsample flags, mode, settings
AssemblyArgs ==
    {Args(l, d, Given(<<4, 4, 4, 4>>), ds, n, FZero, f, p) :
        l \in {<<1, 0, 1, 1>>},
        d \in {PresetDims, <<64, 64, 128, 128>>, <<64, 64, 64, 64>>},
        ds \in {<<TRUE, TRUE, TRUE, TRUE>>, <<FALSE, FALSE, FALSE, FALSE>>,
                <<FALSE, TRUE, TRUE, FALSE>>},
        n \in 0..MaxClasses, f \in BOOLEAN, p \in {DefaultPatch, OtherPatch}}

\* calls whose lists are omitted or differ in length
LengthArgs ==
    {Args(l, d, m, ds, MaxClasses, FZero, f, DefaultPatch) :
        l \in {<<2, 2, 6, 2>>, <<1, 1>>, <<1, 1, 1, 1, 1>>},
        d \in {PresetDims, <<64, 128, 320>>, <<64, 128, 320, 512, 512>>},
        m \in {Omitted, Given(<<4, 4, 4, 4>>), Given(<<4, 4, 4>>)},
        ds \in {<<TRUE, TRUE, TRUE, TRUE>>, <<TRUE, TRUE, TRUE>>},
        f \in BOOLEAN}

\* calls that vary the depth: every block count, and the drop-path rate
DepthArgs ==
    {Args(l, PresetDims, Given(<<4, 4, 4, 4>>), <<TRUE, TRUE, TRUE, TRUE>>,
          MaxClasses, r, FALSE, DefaultPatch) :
        l \in [1..4 -> 0..MaxBlocks], r \in DropPathRates}

\* input tensors [B, C, H, W]: the multiples of 32 up to the bound, the
\* 224 x 224 image, a batch of two, and inputs that are not 3-channel, too
\* small for the stem, or not multiples of 32
Sides == {32 * k : k \in 1..MaxMult}

Inputs == {<<1, 3, h, w>> : h \in Sides, w \in Sides}
              \cup {<<1, 3, 224, 224>>, <<2, 3, 32, 224>>, <<1, 1, 32, 32>>,
                    <<1, 3, 2, 2>>, <<1, 3, 30, 45>>}

(***************************************************************************)
(* The state machine.                                                      *)
(***************************************************************************)
\* a file system without checkpoint files
NoFiles == [path \in {} |-> None]

\* before the constructor is called: nothing is constructed, no checkpoint
\* file exists, nothing is logged
Unbuilt ==
    /\ phase = "new"
    /\ self = NewObject
    /\ last = [op |-> "none", arg |-> <<>>, raised |-> None]
    /\ result = None
    /\ files = NoFiles
    /\ log = <<>>
    /\ pending = 0

\* before the PoolFormer(...) call, with a generator that gives bits of 1
Fresh == Unbuilt /\ generator = AllKept

Init ==
    /\ \/ args \in AssemblyArgs /\ environ \in {None, "1"}
       \/ args \in LengthArgs /\ environ = None
    /\ Fresh

\* the LayerNormChannel modules of a model: two in every block, and the
\* output norms; the constructor of each one calls pdb.set_trace()
Breakpoints(obj) ==
    LET blocks == [i \in 1..Len(obj["network"]) |->
                      IF obj["network"][i].type # "Sequential" THEN 0
                      ELSE Cardinality(
                               {b \in 1..Len(obj["network"][i].blocks) :
                                   obj["network"][i].blocks[b].norm1.type
                                       = "LayerNormChannel"})]
        norms == {n \in {"norm"} \cup {NormName(out_indices[j]) :
                                          j \in 1..Len(out_indices)} :
                     HasAttr(obj, n) /\ obj[n].type = "LayerNormChannel"}
    IN 2 * Sum(blocks) + Cardinality(norms)

\* PoolFormer(...): the call returns or raises, unless it stops at the
\* prompt of a breakpoint first
Construct ==
    /\ phase = "new"
    /\ LET r == Constructed(args, environ, files, log)
       IN /\ phase' = IF r.raised # None THEN "failed"
                      ELSE IF Breakpoints(r.self) > 0 THEN "suspended"
                      ELSE "built"
          /\ pending' = IF r.raised # None THEN 0 ELSE Breakpoints(r.self)
          /\ self' = r.self
          /\ log' = r.log
          /\ last' = [op |-> "__init__", arg |-> <<>>, raised |-> r.raised]
    /\ result' = None
    /\ UNCHANGED <<args, environ, files, generator>>

\* 'c' at the pdb prompt: the constructor goes on to the next breakpoint,
\* or returns
PdbContinue ==
    /\ phase = "suspended"
    /\ pending' = pending - 1
    /\ phase' = IF pending = 1 THEN "built" ELSE "suspended"
    /\ UNCHANGED <<args, environ, self, last, result, files, log, generator>>

\* 'q' at the pdb prompt: the constructor raises BdbQuit
PdbQuit ==
    /\ phase = "suspended"
    /\ pending' = 0
    /\ phase' = "failed"
    /\ self' = NewObject
    /\ last' = [last EXCEPT !.raised = "BdbQuit"]
    /\ UNCHANGED <<args, environ, result, files, log, generator>>

\* model.train() and model.eval()
SetMode ==
    /\ phase = "built"
    /\ \E mode \in BOOLEAN :
          /\ self' = SetAttr(self, "training", mode)
          /\ last' = [op |-> "train", arg |-> <<mode>>, raised |-> None]
    /\ result' = None
    /\ UNCHANGED <<args, environ, phase, files, log, pending, generator>>

\* the call op(arg) returned r.value or raised r.raised
Returned(op, arg, r) ==
    /\ last' = [op |-> op, arg |-> arg, raised |-> r.raised]
    /\ result' = r.value

\* model(x) for an input x of one of the shapes
ForwardOn(shapes) ==
    /\ phase = "built"
    /\ \E x \in shapes :
          Returned("forward", x, forward(self, Tensor(x, <<>>), generator))
    /\ generator' = IF DrawsBits(self) THEN Advance(generator) ELSE generator
    /\ UNCHANGED <<args, environ, phase, self, files, log, pending>>

Forward == ForwardOn(Inputs)

GetClassifier ==
    /\ phase = "built"
    /\ LET r == get_classifier(self)
       IN /\ last' = [op |-> "get_classifier", arg |-> <<>>,
                      raised |-> r.raised]
          /\ result' = r.value
    /\ UNCHANGED <<args, environ, phase, self, files, log, pending, generator>>

ResetClassifier ==
    /\ phase = "built"
    /\ \E n \in 0..MaxClasses :
          LET r == reset_classifier(self, n)
          IN /\ self' = r.self
             /\ last' = [op |-> "reset_classifier", arg |-> <<n>>,
                         raised |-> r.raised]
    /\ result' = None
    /\ UNCHANGED <<args, environ, phase, files, log, pending, generator>>

Next == Construct \/ Forward \/ GetClassifier \/ ResetClassifier

Spec == Init /\ [][Next]_vars

\* the constructor alone, over every depth and drop-path rate
DepthInit == args \in DepthArgs /\ environ = None /\ Fresh

DepthSpec == DepthInit /\ [][Construct]_vars

(***************************************************************************)
(* Notions the properties share.                                           *)
(***************************************************************************)
Built == phase = "built"

\* the last call was forward on an input [B, 3, H, W], H and W multiples of 32
ForwardOnValidInput ==
    /\ Built
    /\ last.op = "forward"
    /\ last.arg[2] = 3
    /\ last.arg[3] % 32 = 0
    /\ last.arg[4] % 32 = 0

\* the four lists of the stage configuration all have length 4
ValidConfig ==
    /\ Len(args.layers) = 4
    /\ Len(args.embed_dims) = 4
    /\ args.mlp_ratios # Omitted
    /\ Len(args.mlp_ratios[1]) = 4
    /\ Len(args.downsamples) = 4

LastDim == Item(args.embed_dims, Len(args.embed_dims) - 1)

\* the tensor t is what a norm layer made of the output of stage i
NormalizedStageOutput(t, i) ==
    /\ Len(t.hist) >= 2
    /\ t.hist[Len(t.hist)].op = "GroupNorm"
    /\ t.hist[Len(t.hist) - 1] = Op("stage", i)

\* num_classes and head are what the constructor set
ClassifierAsBuilt ==
    /\ self["num_classes"] = args.num_classes
    /\ self["head"].type = ClassifierHead(LastDim, args.num_classes).type

(***************************************************************************)
(* C1: a feature-pyramid model of 4 stages returns from forward exactly 4  *)
(* feature maps, the i-th being the normalized output of stage i, whatever *)
(* the downsample flags and widths (FORK_LAST3 unset).                     *)
(***************************************************************************)
C1_FourNormalizedStageOutputs ==
    (ForwardOnValidInput /\ args.fork_feat /\ Len(args.layers) = 4
        /\ environ = None)
    => /\ last.raised = None
       /\ Len(result) = 4
       /\ \A i \in 1..4 : NormalizedStageOutput(result[i], i - 1)

(***************************************************************************)
(* C2: in feature-pyramid mode with the default stem (7/4/2) and           *)
(* downsampler (3/2/1) and every downsample flag true, forward on          *)
(* [B, 3, H, W] with H and W multiples of 32 returns 4 tensors, the i-th   *)
(* of shape [B, embed_dims[i], H/s_i, W/s_i] with s = 4, 8, 16, 32.        *)
(***************************************************************************)
Strides == <<4, 8, 16, 32>>

DefaultPyramid ==
    /\ args.fork_feat
    /\ Len(args.layers) = 4
    /\ \A f \in DOMAIN DefaultPatch : args[f] = DefaultPatch[f]
    /\ \A i \in 1..Len(args.downsamples) : args.downsamples[i]

C2_PyramidShapes ==
    (ForwardOnValidInput /\ DefaultPyramid)
    => /\ last.raised = None
       /\ Len(result) = 4
       /\ \A i \in 1..4 :
             result[i].shape = <<last.arg[1], args.embed_dims[i],
                                 last.arg[3] \div Strides[i],
                                 last.arg[4] \div Strides[i]>>

C2_Witness ==
    /\ ForwardOnValidInput /\ DefaultPyramid
    /\ last.arg = <<1, 3, 224, 224>>
    /\ args.embed_dims = PresetDims
    /\ last.raised = None
    /\ result[1].shape = <<1, 64, 56, 56>>
    /\ result[2].shape = <<1, 128, 28, 28>>
    /\ result[3].shape = <<1, 320, 14, 14>>
    /\ result[4].shape = <<1, 512, 7, 7>>

(***************************************************************************)
(* C3: in classification mode with num_classes > 0, forward applies the    *)
(* final normalization, then the spatial mean, then the linear classifier, *)
(* and returns logits of shape [B, num_classes].                           *)
(***************************************************************************)
C3_ClassifierLogits ==
    (ForwardOnValidInput /\ ValidConfig /\ ~args.fork_feat
        /\ args.num_classes > 0 /\ ClassifierAsBuilt)
    => /\ last.raised = None
       /\ result.shape = <<last.arg[1], args.num_classes>>
       /\ Len(result.hist) >= 3
       /\ SubSeq(result.hist, Len(result.hist) - 2, Len(result.hist))
            = <<Op("GroupNorm", LastDim), Op("mean", 0),
                Op("Linear", args.num_classes)>>

C3_Witness ==
    /\ ForwardOnValidInput /\ ValidConfig /\ ~args.fork_feat
    /\ args.num_classes > 0 /\ ClassifierAsBuilt
    /\ args.layers = <<2, 2, 6, 2>>
    /\ args.embed_dims = PresetDims
    /\ last.arg = <<1, 3, 224, 224>>
    /\ last.raised = None
    /\ result.shape = <<1, args.num_classes>>

(***************************************************************************)
(* C4: a classification model constructed with num_classes = 0 has an      *)
(* identity head, and forward returns the pooled features, of shape        *)
(* [B, embed_dims[-1]], with no projection.                                *)
(***************************************************************************)
C4_IdentityHead ==
    (Built /\ ValidConfig /\ ~args.fork_feat /\ args.num_classes = 0
        /\ ClassifierAsBuilt)
    => /\ self["head"] = Identity
       /\ ForwardOnValidInput
          => /\ last.raised = None
             /\ result.shape = <<last.arg[1], LastDim>>
             /\ Len(result.hist) >= 2
             /\ SubSeq(result.hist, Len(result.hist) - 1, Len(result.hist))
                  = <<Op("GroupNorm", LastDim), Op("mean", 0)>>

C4_Witness ==
    /\ ForwardOnValidInput /\ ValidConfig /\ ~args.fork_feat
    /\ args.num_classes = 0 /\ ClassifierAsBuilt
    /\ args.embed_dims = PresetDims
    /\ last.raised = None
    /\ result.shape = <<1, 512>>

(***************************************************************************)
(* C5: mode exclusivity: in every state after construction a model built   *)
(* in feature-pyramid mode has no head attribute, and a model built in     *)
(* classification mode has neither the per-stage output norms nor          *)
(* out_indices.                                                            *)
(***************************************************************************)
C5_ModeExclusivity ==
    Built =>
        IF self["fork_feat"]
        THEN ~HasAttr(self, "head")
        ELSE /\ ~HasAttr(self, "out_indices")
             /\ \A j \in 1..Len(out_indices) :
                    ~HasAttr(self, NormName(out_indices[j]))

(***************************************************************************)
(* C6: a configuration with sum(layers) <= 1 is rejected by the            *)
(* constructor with a descriptive configuration error, for every           *)
(* drop_path_rate; it neither divides by zero nor produces a model.        *)
(***************************************************************************)
ConfigurationErrors == {"ValueError", "AssertionError"}

C6_DegenerateDepthRejected ==
    (phase # "new" /\ ValidConfig /\ Sum(args.layers) <= 1)
    => /\ phase = "failed"
       /\ last.raised \in ConfigurationErrors

(***************************************************************************)
(* C7: a configuration whose layers, embed_dims, mlp_ratios and            *)
(* downsamples do not all have length 4 is rejected by the constructor     *)
(* with a configuration error; no model is produced from it.               *)
(***************************************************************************)
C7_LengthMismatchRejected ==
    (phase # "new" /\ args.mlp_ratios # Omitted /\ ~ValidConfig)
    => /\ phase = "failed"
       /\ last.raised \in ConfigurationErrors

(***************************************************************************)
(* C8: with mlp_ratios omitted (layers, embed_dims and downsamples given)  *)
(* construction succeeds and every block's MLP uses the ratio 4.           *)
(***************************************************************************)
C8_DefaultMlpRatio ==
    (phase # "new" /\ args.mlp_ratios = Omitted /\ Len(args.layers) = 4
        /\ Len(args.embed_dims) = 4 /\ Len(args.downsamples) = 4
        /\ Sum(args.layers) > 1)
    => /\ Built
       /\ \A n \in 1..Len(self["network"]) :
             self["network"][n].type = "Sequential"
             => \A b \in 1..Len(self["network"][n].blocks) :
                    self["network"][n].blocks[b].mlp_ratio = 4

(***************************************************************************)
(* The rates the blocks of a built network carry.                          *)
(***************************************************************************)
\* the number of blocks in the modules of the network before position n
BlocksBefore(network, n) ==
    LET RECURSIVE go(_)
        go(k) == IF k = 0 THEN 0
                 ELSE go(k - 1) + IF network[k].type = "Sequential"
                                  THEN Len(network[k].blocks) ELSE 0
    IN go(n - 1)

\* DropPath(p) carries p; nn.Identity() stands for the rate 0
AssignedRate(block) ==
    IF block.drop_path.type = "DropPath" THEN block.drop_path.drop_prob
    ELSE FZero

\* the doubles next to x, x > 0
FSucc(x) ==
    IF \A j \in 1..MantBits : x.m[j] = 1
    THEN [m |-> <<1>> \o Zeros(MantBits - 1), e |-> x.e + 1]
    ELSE [m |-> IncBits(x.m), e |-> x.e]

FPred(x) ==
    IF \A j \in 2..MantBits : x.m[j] = 0
    THEN [m |-> [j \in 1..MantBits |-> 1], e |-> x.e - 1]
    ELSE LET z == CHOOSE j \in 1..MantBits :
                      x.m[j] = 1 /\ \A i \in (j + 1)..MantBits : x.m[i] = 0
         IN [m |-> [j \in 1..MantBits |->
                       IF j < z THEN x.m[j] ELSE IF j = z THEN 0 ELSE 1],
             e |-> x.e]

WithinOneUlp(r, x) ==
    \/ r = x
    \/ ~IsZero(x) /\ (r = FSucc(x) \/ r = FPred(x))

FirstBlock == self["network"][1].blocks[1]

LastBlock ==
    LET stage == self["network"][Len(self["network"])]
    IN stage.blocks[Len(stage.blocks)]

(***************************************************************************)
(* C9: when the constructor returns and sum(layers) > 1, the block at      *)
(* position block_idx of stage i carries the rate                          *)
(* drop_path_rate * g / (sum(layers) - 1), where g is the number of blocks *)
(* before it in the whole network: the rate follows the global position    *)
(* and does not restart at a stage boundary.                               *)
(***************************************************************************)
C9_GlobalLinearRate ==
    (Built /\ last.op = "__init__" /\ Sum(args.layers) > 1)
    => \A n \in 1..Len(self["network"]) :
          self["network"][n].type = "Sequential"
          => \A b \in 1..Len(self["network"][n].blocks) :
                AssignedRate(self["network"][n].blocks[b])
                  = FDivInt(FMulInt(args.drop_path_rate,
                                    (b - 1) + BlocksBefore(self["network"], n)),
                            Sum(args.layers) - 1)

\* a block of a later stage whose rate differs from what a per-stage
\* restart would give it
C9_Witness ==
    /\ Built
    /\ last.op = "__init__"
    /\ Sum(args.layers) > 1
    /\ \E n \in 1..Len(self["network"]) :
          /\ self["network"][n].type = "Sequential"
          /\ self["network"][n].index >= 1
          /\ BlocksBefore(self["network"], n) > 0
          /\ \E b \in 1..Len(self["network"][n].blocks) :
                /\ FPositive(AssignedRate(self["network"][n].blocks[b]))
                /\ AssignedRate(self["network"][n].blocks[b])
                     # FDivInt(FMulInt(args.drop_path_rate, b - 1),
                               Sum(args.layers) - 1)

(***************************************************************************)
(* C10 as stated: when the constructor returns and sum(layers) > 1, the    *)
(* first block of stage 0 has rate exactly 0 and the last block of the     *)
(* last stage has rate exactly drop_path_rate.                             *)
(***************************************************************************)
C10_ExactBoundary ==
    (Built /\ last.op = "__init__" /\ Sum(args.layers) > 1)
    => /\ args.layers[1] > 0 => AssignedRate(FirstBlock) = FZero
       /\ args.layers[Len(args.layers)] > 0
          => AssignedRate(LastBlock) = args.drop_path_rate

(***************************************************************************)
(* C10 as amended: when the constructor returns and sum(layers) > 1, the   *)
(* first block of stage 0 has rate exactly 0 and the last block of the     *)
(* last stage has a rate within one unit in the last place of              *)
(* drop_path_rate.                                                         *)
(***************************************************************************)
C10_BoundaryWithinOneUlp ==
    (Built /\ last.op = "__init__" /\ Sum(args.layers) > 1)
    => /\ args.layers[1] > 0 => AssignedRate(FirstBlock) = FZero
       /\ args.layers[Len(args.layers)] > 0
          => WithinOneUlp(AssignedRate(LastBlock), args.drop_path_rate)

\* 0.1 * 3 / 3 is the double after 0.1
C10_Witness ==
    /\ Built
    /\ last.op = "__init__"
    /\ Sum(args.layers) = 4
    /\ args.layers[1] > 0
    /\ args.layers[Len(args.layers)] > 0
    /\ args.drop_path_rate = Rate01
    /\ AssignedRate(FirstBlock) = FZero
    /\ AssignedRate(LastBlock) = FSucc(Rate01)

(***************************************************************************)
(* C11: in a network assembled from 4 stages, stage i in 0..2 is directly  *)
(* followed by a downsampling PatchEmbed from embed_dims[i] to             *)
(* embed_dims[i+1] if and only if downsamples[i] is true or the two widths *)
(* differ; the last module is stage 3, whatever downsamples[3] is, and     *)
(* downsamples[3] need not exist.                                          *)
(***************************************************************************)
\* stage i of the configuration is followed by a downsampler
Downsampled(i) ==
    Item(args.downsamples, i)
        \/ Item(args.embed_dims, i) # Item(args.embed_dims, i + 1)

\* the position in the network (from 1) of stage i
StagePosition(i) == (i + 1) + Cardinality({j \in 0..(i - 1) : Downsampled(j)})

FourStages ==
    /\ Len(args.layers) = 4
    /\ Len(args.embed_dims) = 4
    /\ Len(args.downsamples) >= 3

C11_DownsamplerPlacement ==
    (Built /\ FourStages)
    => /\ Len(self["network"]) = StagePosition(3)
       /\ \A i \in 0..3 :
             /\ self["network"][StagePosition(i)].type = "Sequential"
             /\ self["network"][StagePosition(i)].index = i
       /\ \A i \in 0..2 :
             IF Downsampled(i)
             THEN /\ StagePosition(i + 1) = StagePosition(i) + 2
                  /\ self["network"][StagePosition(i) + 1]
                        = PatchEmbed(args.down_patch_size, args.down_stride,
                                     args.down_pad, Item(args.embed_dims, i),
                                     Item(args.embed_dims, i + 1))
             ELSE StagePosition(i + 1) = StagePosition(i) + 1

\* no downsampler after stage 0 (flag false, equal widths), one after stage
\* 1 (widths differ) and one after stage 2 (flag true, equal widths)
C11_Witness ==
    /\ Built /\ FourStages
    /\ args.downsamples = <<FALSE, TRUE, TRUE, FALSE>>
    /\ args.embed_dims = <<64, 64, 128, 128>>
    /\ Len(self["network"]) = 6
    /\ self["network"][2].type = "Sequential"
    /\ self["network"][3].type = "PatchEmbed"
    /\ self["network"][5].type = "PatchEmbed"
    /\ self["network"][6].type = "Sequential"

(***************************************************************************)
(* The Pooling token mixer on its own: Pooling(pool_size) is constructed   *)
(* and applied to tensors that carry their values.                         *)
(***************************************************************************)
\* a [1, 1, H, W] tensor whose every entry is c
ConstantTensor(H, W, c) ==
    SetAttr(Tensor(<<1, 1, H, W>>, <<>>), "val",
            [q \in (1..H) \X (1..W) |-> c])

\* a [1, 1, H, W] tensor of 1.0 and 0.5 in a checkerboard
Checkerboard(H, W) ==
    SetAttr(Tensor(<<1, 1, H, W>>, <<>>), "val",
            [q \in (1..H) \X (1..W) |->
                IF (q[1] + q[2]) % 2 = 0 THEN FOne ELSE Rate05])

Constants == {FZero, Rate05, FOne, Rate01}

PoolingInputs ==
    {ConstantTensor(H, W, c) : H \in 1..MaxSide, W \in 1..MaxSide,
                               c \in Constants}
        \cup {Checkerboard(H, W) : H \in 1..MaxSide, W \in 1..MaxSide}

\* what a call that gave the tensor y returned or raised
Outcome(y) == [raised |-> y.raised, value |-> y]

PoolingInit ==
    /\ args \in [pool_size : 1..MaxPool]
    /\ environ = None
    /\ Fresh

PoolingConstruct ==
    /\ phase = "new"
    /\ phase' = "built"
    /\ self' = Pooling(args.pool_size)
    /\ last' = [op |-> "Pooling.__init__", arg |-> <<>>, raised |-> None]
    /\ result' = None
    /\ UNCHANGED <<args, environ, files, log, pending, generator>>

PoolingForward ==
    /\ phase = "built"
    /\ \E x \in PoolingInputs :
          Returned("Pooling.forward", x, Outcome(Pooling_forward(self, x)))
    /\ UNCHANGED <<args, environ, phase, self, files, log, pending, generator>>

PoolingNext == PoolingConstruct \/ PoolingForward

PoolingSpec == PoolingInit /\ [][PoolingNext]_vars

(***************************************************************************)
(* C12: Pooling on a constant input.                                       *)
(***************************************************************************)
\* Pooling.forward has returned
PoolingRan ==
    /\ phase = "built"
    /\ last.op = "Pooling.forward"
    /\ last.raised = None

IsConstant(x) == \A p \in DOMAIN x.val, q \in DOMAIN x.val : x.val[p] = x.val[q]

\* the cells of 1..n within k \div 2 of position i
Near(n, k, i) == {r \in 1..n : r - i <= k \div 2 /\ i - r <= k \div 2}

\* the number of in-bounds cells of the window around position q
InBounds(x, k, q) ==
    Cardinality(Near(x.shape[3], k, q[1]))
        * Cardinality(Near(x.shape[4], k, q[2]))

\* c + c + ... + c, n terms added one after the other
RepeatedSum(c, n) ==
    LET RECURSIVE go(_)
        go(i) == IF i = 0 THEN FZero ELSE FAdd(go(i - 1), c)
    IN go(n)

\* the constants every multiple of which, as far as a window sums
\* them, is a double
ExactMultiples == {FZero, Rate05, FOne}

\* C12 as stated: for a constant input and an odd pool size the output of
\* Pooling is exactly zero at every position
C12_ExactlyZero ==
    (PoolingRan /\ args.pool_size % 2 = 1 /\ IsConstant(last.arg))
    => \A q \in DOMAIN result.val : IsZero(result.val[q].abs)

\* C12, amended: for a constant input c and an odd pool size the output at
\* a position whose window has n in-bounds cells is (c + ... + c) / n - c
\* as the doubles compute it, the divisor being n and not k * k; that is
\* exactly zero where n is 1, 2 or 4 and where the multiples of c are
\* doubles
C12_ZeroUpToRounding ==
    (PoolingRan /\ args.pool_size % 2 = 1 /\ IsConstant(last.arg))
    => /\ result.shape = last.arg.shape
       /\ \A q \in DOMAIN result.val :
             LET n == InBounds(last.arg, args.pool_size, q)
                 c == last.arg.val[q]
             IN /\ result.val[q] = FSub(FDivInt(RepeatedSum(c, n), n), c)
                /\ (n \in {1, 2, 4} \/ c \in ExactMultiples)
                      => result.val[q] = SZero

\* pool size 3 on the 3 x 3 tensor of 0.1: the corner, with 4 in-bounds
\* cells, is zero; the edge with 6 and the centre with 9 are not
C12_Witness ==
    /\ PoolingRan
    /\ args.pool_size = 3
    /\ last.arg = ConstantTensor(3, 3, Rate01)
    /\ result.val[<<1, 1>>] = SZero
    /\ result.val[<<1, 2>>] # SZero
    /\ result.val[<<2, 2>>] # SZero

(***************************************************************************)
(* One PoolFormerBlock on its own: the block is constructed, and the block *)
(* and its token mixer are applied to symbolic tensors.                    *)
(***************************************************************************)
BlockDim == 64

BlockArgs ==
    [dim : {BlockDim}, pool_size : 1..MaxPool, mlp_ratio : {4},
     norm_layer : {"GroupNorm"}, drop_path : {FZero, Rate05},
     use_layer_scale : BOOLEAN,
     layer_scale_init_value : {FZero, LayerScaleInit}]

\* an input that holds an infinity
NonFinite(shape) == Tensor(shape, <<Op("nonfinite", 0)>>)

\* inputs [B, dim, H, W], inputs that hold an infinity, and an input of
\* another width
BlockInputs ==
    {Tensor(<<B, BlockDim, H, W>>, <<>>) :
        B \in 1..2, H \in 1..MaxSide, W \in 1..MaxSide}
        \cup {NonFinite(<<1, BlockDim, H, W>>) :
                 H \in 1..MaxSide, W \in 1..MaxSide}
        \cup {Tensor(<<1, BlockDim \div 2, 1, 1>>, <<>>)}

BlockInit ==
    /\ args \in BlockArgs
    /\ environ = None
    /\ Unbuilt
    /\ generator \in Streams

\* nn.Module.__init__ sets training to True
BlockConstruct ==
    /\ phase = "new"
    /\ phase' = "built"
    /\ self' = SetAttr(PoolFormerBlock(args.dim, args.pool_size,
                                       args.mlp_ratio, args.norm_layer,
                                       args.drop_path, args.use_layer_scale,
                                       args.layer_scale_init_value),
                       "training", TRUE)
    /\ last' = [op |-> "PoolFormerBlock.__init__", arg |-> <<>>,
                raised |-> None]
    /\ result' = None
    /\ UNCHANGED <<args, environ, files, log, pending, generator>>

BlockForward ==
    /\ phase = "built"
    /\ \E x \in BlockInputs :
          Returned("PoolFormerBlock.forward", x,
                   Outcome(PoolFormerBlock_forward(
                               self, x, Runtime(self["training"], generator))))
    /\ generator' = IF Draws(self["drop_path"], self["training"])
                    THEN Advance(generator) ELSE generator
    /\ UNCHANGED <<args, environ, phase, self, files, log, pending>>

TokenMixerForward ==
    /\ phase = "built"
    /\ \E x \in BlockInputs :
          Returned("Pooling.forward", x,
                   Outcome(Pooling_forward(self["token_mixer"], x)))
    /\ UNCHANGED <<args, environ, phase, self, files, log, pending, generator>>

BlockNext == BlockConstruct \/ BlockForward \/ TokenMixerForward

BlockSpec == BlockInit /\ [][BlockNext]_vars

(***************************************************************************)
(* Notions the properties of a block share.                                *)
(***************************************************************************)
\* PoolFormerBlock.forward was the last call
BlockRan == phase = "built" /\ last.op = "PoolFormerBlock.forward"

\* the input was [B, dim, H, W] and the pool size is odd
BlockInputFits ==
    /\ last.arg.shape[2] = args.dim
    /\ args.pool_size % 2 = 1

\* both layer-scale vectors are zero
ZeroScales ==
    /\ self["use_layer_scale"]
    /\ IsZero(self["layer_scale_1"])
    /\ IsZero(self["layer_scale_2"])

(***************************************************************************)
(* C13: the block with zero layer scales.                                  *)
(***************************************************************************)
\* C13 as stated: with both layer-scale vectors zero the block returns a
\* tensor equal to its input, for every input
C13_IdentityForEveryInput ==
    (BlockRan /\ BlockInputFits /\ ZeroScales)
    => last.raised = None /\ result = last.arg

\* C13, amended: with both layer-scale vectors zero the block returns a
\* tensor equal to its input, for every input whose values are finite,
\* whatever the drop-path rate and the random bits
C13_IdentityOnFiniteInput ==
    (BlockRan /\ BlockInputFits /\ ZeroScales /\ Finite(last.arg))
    => last.raised = None /\ result = last.arg

\* a block with zero layer scales and drop-path rate 0.5 has returned its
\* input, a batch of two
C13_Witness ==
    /\ BlockRan /\ BlockInputFits /\ ZeroScales
    /\ args.drop_path = Rate05
    /\ last.arg = Tensor(<<2, BlockDim, 2, 3>>, <<>>)
    /\ last.raised = None
    /\ result = last.arg

(***************************************************************************)
(* C18: the two residual updates of a block.                               *)
(***************************************************************************)
\* neither branch is multiplied by zero: the layer scales are not zero and
\* DropPath, if there is one, keeps every sample
BranchesKept ==
    /\ ~ZeroScales
    /\ args.drop_path = FZero \/ generator = AllKept

\* the operators of a branch after its norm and its mixer
BranchTail(scale) ==
    (IF self["use_layer_scale"]
     THEN <<[op |-> "layer_scale", arg |-> 0, value |-> scale]>>
     ELSE <<>>)
    \o (IF self["drop_path"].type = "DropPath"
        THEN <<[op |-> "DropPath", arg |-> 0,
                keep |-> [b \in 1..last.arg.shape[1] |-> 1]]>>
        ELSE <<>>)

\* C18: a block's forward appends exactly two updates to its input: the
\* first adds drop_path(ls1 * token_mixer(norm1(x))) computed from the
\* input, the second adds drop_path(ls2 * mlp(norm2(x1))) computed from
\* the result x1 of the first; without layer scales the branches are the
\* same but for the layer-scale factor, which is absent
C18_TwoUpdatesInOrder ==
    (BlockRan /\ BlockInputFits /\ BranchesKept)
    => LET n == Len(last.arg.hist)
           dim == Op("GroupNorm", args.dim)
           ls == args.layer_scale_init_value
       IN /\ last.raised = None
          /\ Len(result.hist) = n + 2
          /\ SubSeq(result.hist, 1, n) = last.arg.hist
          /\ result.hist[n + 1] =
                [op |-> "add", arg |-> n,
                 branch |-> <<dim, Op("Pooling", args.pool_size)>>
                               \o BranchTail(ls)]
          /\ result.hist[n + 2] =
                [op |-> "add", arg |-> n + 1,
                 branch |-> <<dim, Op("Mlp", args.dim * args.mlp_ratio)>>
                               \o BranchTail(ls)]

\* a block without layer scales has made its two updates, and the second
\* branch starts from the result of the first
C18_Witness ==
    /\ BlockRan /\ BlockInputFits /\ BranchesKept
    /\ ~args.use_layer_scale
    /\ args.drop_path = Rate05
    /\ last.arg = Tensor(<<1, BlockDim, 3, 3>>, <<>>)
    /\ Len(result.hist) = 2
    /\ result.hist[2].arg = 1
    /\ result.hist[2].branch[2] = Op("Mlp", 4 * BlockDim)

(***************************************************************************)
(* C20: shapes.                                                            *)
(***************************************************************************)
\* C20: for an input [B, dim, H, W], H, W >= 1, and an odd pool size, the
\* Pooling token mixer and the block return, and return a tensor of the
\* input's shape
C20_ShapePreserved ==
    (/\ phase = "built"
     /\ last.op \in {"PoolFormerBlock.forward", "Pooling.forward"}
     /\ BlockInputFits)
    => last.raised = None /\ result.shape = last.arg.shape

\* a block with pool size 3 has mapped a [2, dim, 1, 3] input, narrower
\* than the pooling window, to a tensor of that shape
C20_Witness ==
    /\ BlockRan
    /\ args.pool_size = 3
    /\ last.arg = Tensor(<<2, BlockDim, 1, 3>>, <<>>)
    /\ last.raised = None
    /\ Len(result.hist) = 2
    /\ result.shape = <<2, BlockDim, 1, 3>>

(***************************************************************************)
(* The model in its two modes: it is constructed with either norm layer,   *)
(* with and without drop path, switched between training and inference,    *)
(* and applied.                                                            *)
(***************************************************************************)
ModeArgs ==
    {[Args(l, PresetDims, Given(<<4, 4, 4, 4>>), <<TRUE, TRUE, TRUE, TRUE>>,
           MaxClasses, r, f, DefaultPatch) EXCEPT !.norm_layer = n] :
        l \in {<<1, 1, 1, 1>>, <<2, 0, 1, 1>>}, r \in {FZero, Rate05},
        f \in BOOLEAN, n \in {"GroupNorm", "LayerNormChannel"}}

ModeInputs == {<<1, 3, 32, 32>>, <<2, 3, 32, 64>>}

ModeInit ==
    /\ args \in ModeArgs
    /\ environ = None
    /\ Unbuilt
    /\ generator \in Streams

ModeForward == ForwardOn(ModeInputs)

ModeNext == Construct \/ PdbContinue \/ PdbQuit \/ SetMode \/ ModeForward

ModeSpec == ModeInit /\ [][ModeNext]_vars

(***************************************************************************)
(* C17: suspension points.                                                 *)
(***************************************************************************)
\* C17: with GroupNorm or LayerNormChannel as norm_layer, construction and
\* forward never wait for interactive input
C17_NoSuspensionPoint == phase # "suspended"

(***************************************************************************)
(* C14: forward as a pure function.                                        *)
(***************************************************************************)
\* the step is a call of forward: no other operation leaves "forward" in
\* last, and a call that changes nothing is a stuttering step
ForwardStep == last'.op = "forward"

\* the call made by the step, evaluated with the generator in state rnd
ForwardWith(rnd) == forward(self, Tensor(last'.arg, <<>>), rnd)

\* the model draws no drop-path mask: it is in inference mode, or it was
\* built with drop_path_rate = 0
NoMaskDrawn == ~self["training"] \/ IsZero(args.drop_path_rate)

\* C14 (as stated): no forward call changes the model (parameters, network
\* list, mode flag, output norms), and a forward call on the same input as
\* the call before it returns the same output
C14_DeterministicPure ==
    [][ForwardStep =>
          /\ self' = self
          /\ (last.op = "forward" /\ last'.arg = last.arg) =>
                 (result' = result /\ last'.raised = last.raised)]_vars

\* C14 (amended): no forward call changes the model, and in inference mode
\* or with drop_path_rate = 0 the output of a call is the same for every
\* state of the random generator, so it depends on the model and the input
\* alone
C14_PureAndDeterministicWithoutMask ==
    [][ForwardStep =>
          /\ self' = self
          /\ NoMaskDrawn =>
                 \A rnd \in Streams :
                    /\ ForwardWith(rnd).value = result'
                    /\ ForwardWith(rnd).raised = last'.raised]_vars

\* a model with DropPath modules was put in inference mode and called while
\* the generator was about to give a zero bit
C14_Witness ==
    /\ last.op = "forward"
    /\ last.raised = None
    /\ ~self["training"]
    /\ args.drop_path_rate = Rate05
    /\ generator = <<1, 0>>

(***************************************************************************)
(* C19: where residual dropping is the identity.                           *)
(***************************************************************************)
ForwardRan == last.op = "forward" /\ last.raised = None

\* the operations behind the last tensor forward returned
FinalHist ==
    IF args.fork_feat THEN result[Len(result)].hist ELSE result.hist

\* the residual additions made, in order; a dropped branch adds nothing
Adds == SelectSeq(FinalHist, LAMBDA o : o.op = "add")

\* the branch of the addition went through a drop-path mask and rescaling
Masked(o) == \E i \in 1..Len(o.branch) : o.branch[i].op = "DropPath"

\* C19: in inference mode, or with drop_path_rate = 0 in either mode, every
\* block adds both its branches as computed (no mask, no rescaling); for
\* every drop_path_rate and mode the first block of the model does
C19_DropPathIdentity ==
    ForwardRan =>
       /\ NoMaskDrawn =>
              /\ Len(Adds) = 2 * Sum(args.layers)
              /\ \A i \in 1..Len(Adds) : ~Masked(Adds[i])
       /\ Len(Adds) >= 2
       /\ Adds[1].arg = 1 /\ Adds[1].branch[2].op = "Pooling"
       /\ Adds[2].arg = 2 /\ Adds[2].branch[2].op = "Mlp"
       /\ ~Masked(Adds[1]) /\ ~Masked(Adds[2])

\* in training mode with rate 0.5 a later block dropped a branch and
\* another kept one through the mask, after the first block added both
C19_Witness ==
    /\ ForwardRan
    /\ self["training"]
    /\ args.drop_path_rate = Rate05
    /\ Len(Adds) < 2 * Sum(args.layers)
    /\ \E i \in 1..Len(Adds) : Masked(Adds[i])
    /\ ~Masked(Adds[1]) /\ ~Masked(Adds[2])

(***************************************************************************)
(* Loading pre-trained weights: the constructor and init_weights over the  *)
(* values of init_cfg and pretrained, the packages installed and the       *)
(* checkpoint file found.                                                  *)
(***************************************************************************)
MaxLog == 2

CkptPath == "poolformer_s12.pth"

LoadArg(f, c, p) ==
    [Args(<<1, 1, 1, 1>>, PresetDims, Given(<<4, 4, 4, 4>>),
          <<TRUE, TRUE, TRUE, TRUE>>, MaxClasses, FZero, f, DefaultPatch)
        EXCEPT !.init_cfg = c, !.pretrained = p]

LoadArgs ==
    {LoadArg(f, c, p) :
        f \in BOOLEAN,
        c \in {Omitted, Given([checkpoint |-> CkptPath]),
               Given([type |-> "Pretrained"])},
        p \in {None, CkptPath}}

\* the parameter names of the model built for feature maps (f) or for
\* classification
ModelKeys(f) ==
    state_dict_keys(PoolFormer__init__(LoadArg(f, Omitted, None), None).self)

SavedUnder(keys) == [k \in keys |-> Saved]

\* a classification checkpoint whose head was trained for other classes
OtherHead ==
    [k \in ModelKeys(FALSE) |->
        IF k = "head.weight" THEN SavedOtherShape ELSE Saved]

\* the checkpoint files tried: bare or wrapped, saved from either kind of
\* model
LoadCheckpoints ==
    {Checkpoint({}, NoEntries, NoEntries, SavedUnder(ModelKeys(TRUE))),
     Checkpoint({"state_dict"}, SavedUnder(ModelKeys(FALSE)), NoEntries,
                NoEntries),
     Checkpoint({"model"}, NoEntries, SavedUnder(ModelKeys(TRUE)), NoEntries),
     Checkpoint({"state_dict", "model"}, SavedUnder(ModelKeys(TRUE)),
                SavedUnder(ModelKeys(FALSE)), NoEntries),
     Checkpoint({"state_dict"}, OtherHead, NoEntries, NoEntries)}

Package == "package"

\* mmseg installed or not, the checkpoint file there or not
LoadFiles ==
    {[p \in pk \cup pt |-> IF p = "mmseg" THEN Package ELSE c] :
        pk \in {{}, {"mmseg"}}, pt \in {{}, {CkptPath}},
        c \in LoadCheckpoints}

LoadInit ==
    /\ args \in LoadArgs
    /\ environ = None
    /\ phase = "new"
    /\ self = NewObject
    /\ last = [op |-> "none", arg |-> <<>>, raised |-> None]
    /\ result = None
    /\ files \in LoadFiles
    /\ log = <<>>
    /\ pending = 0
    /\ generator = AllKept

\* model.init_weights(pretrained) on a constructed model
InitWeights ==
    /\ phase = "built"
    /\ Len(log) < MaxLog
    /\ \E p \in {None, CkptPath} :
          LET r == init_weights(self, p, files, log)
          IN /\ self' = r.self
             /\ log' = r.log
             /\ last' = [op |-> "init_weights", arg |-> <<p>>,
                         raised |-> r.raised]
    /\ result' = None
    /\ UNCHANGED <<args, environ, phase, files, pending, generator>>

LoadNext == Construct \/ InitWeights

LoadSpec == LoadInit /\ [][LoadNext]_vars

(***************************************************************************)
(* C15, C16: what the constructor and init_weights load.                   *)
(***************************************************************************)
\* every entry of the state dict in the file at path that has the name and
\* shape of a parameter of the model is the value of that parameter
HoldsCheckpoint(path) ==
    \A k \in state_dict_keys(self) \cap DOMAIN StateDictOf(files[path]) :
       StateDictOf(files[path])[k] = Saved => Parameter(self, k) = Saved

\* the constructor returned a feature-pyramid model
ForkBuilt ==
    /\ last.op = "__init__"
    /\ last.raised = None
    /\ args.fork_feat

\* C15: a feature-pyramid model constructed with pretrained set to the
\* path of a checkpoint file and init_cfg left at None holds the parameters
\* of that checkpoint when the constructor returns
C15_LoadsPretrainedPath ==
    (/\ ForkBuilt
     /\ args.init_cfg = Omitted
     /\ args.pretrained # None
     /\ args.pretrained \in DOMAIN files) => HoldsCheckpoint(args.pretrained)

\* the last call was to load the checkpoint file that init_cfg names, and
\* the logger and the file were there
LoadCalled ==
    /\ last.op \in {"__init__", "init_weights"}
    /\ last.op = "__init__" => args.fork_feat
    /\ Importable(files)
    /\ args.init_cfg # Omitted
    /\ "checkpoint" \in DOMAIN args.init_cfg[1]
    /\ args.init_cfg[1].checkpoint \in DOMAIN files

\* the state dict that call was given, and the names of the model's
\* parameters
GivenStateDict == StateDictOf(files[args.init_cfg[1].checkpoint])

OwnKeys == ModelKeys(args.fork_feat)

\* some name is missing or unexpected, and the entries of matching name
\* have the shapes of the parameters
KeysDiffer ==
    /\ DOMAIN GivenStateDict # OwnKeys
    /\ \A k \in OwnKeys \cap DOMAIN GivenStateDict : GivenStateDict[k] = Saved

\* C16: when the checkpoint has missing or unexpected keys, the load does
\* not fail, a warning about the keys is logged, the parameters of matching
\* name hold the checkpoint values and the others their initial values
C16_KeysReportedAsWarnings ==
    (LoadCalled /\ KeysDiffer) =>
       /\ last.raised = None
       /\ \E i \in 1..Len(log) :
             log[i].level = "warning" /\ log[i].about = "keys"
       /\ \A k \in OwnKeys :
             Parameter(self, k) = IF k \in DOMAIN GivenStateDict THEN Saved
                                  ELSE Initialized

(***************************************************************************)
(* C21: the blocks of the stages.                                          *)
(***************************************************************************)
\* the stages of the network built, in order (the downsamplers left out)
StagesOf(obj) == SelectSeq(obj["network"], LAMBDA m : m.type = "Sequential")

\* stage i (from 1) holds layers[i] blocks of width embed_dims[i] and MLP
\* ratio mlp_ratios[i]
StageAsConfigured(stage, i) ==
    /\ Len(stage.blocks) = args.layers[i]
    /\ \A b \in 1..Len(stage.blocks) :
          /\ stage.blocks[b].type = "PoolFormerBlock"
          /\ stage.blocks[b].dim = args.embed_dims[i]
          /\ stage.blocks[b].mlp_ratio = args.mlp_ratios[1][i]

\* C21: for every list of block counts the constructor returns a model
\* whose stage i holds exactly layers[i] blocks of width embed_dims[i] and
\* MLP ratio mlp_ratios[i], sum(layers) blocks in all
C21_StagesHoldTheirBlocks ==
    last.op = "__init__" =>
       /\ last.raised = None
       /\ Len(StagesOf(self)) = Len(args.layers)
       /\ \A i \in 1..Len(StagesOf(self)) :
             StageAsConfigured(StagesOf(self)[i], i)
       /\ Sum([i \in 1..Len(StagesOf(self)) |->
                  Len(StagesOf(self)[i].blocks)]) = Sum(args.layers)

(***************************************************************************)
(* C22: num_classes and head after reset_classifier.                       *)
(***************************************************************************)
\* head is the identity when num_classes = 0, and otherwise a linear map
\* from embed_dims[-1] to num_classes outputs
HeadMatchesNumClasses ==
    self["head"] =
        IF self["num_classes"] = 0 THEN Identity
        ELSE Linear(Item(args.embed_dims, Len(args.embed_dims) - 1),
                    self["num_classes"])

\* C22: on a classification model num_classes and head agree after the
\* constructor and after every reset_classifier call, returned or raised
C22_HeadConsistentAfterReset ==
    (phase = "built" /\ ~args.fork_feat) => HeadMatchesNumClasses

(***************************************************************************)
(* C23: the order and the range of the assigned rates.                     *)
(***************************************************************************)
\* the rates of the blocks, in network order
RatesOf(network) ==
    LET RECURSIVE go(_)
        go(n) == IF n = 0 THEN <<>>
                 ELSE IF network[n].type # "Sequential" THEN go(n - 1)
                 ELSE go(n - 1)
                      \o [b \in 1..Len(network[n].blocks) |->
                             AssignedRate(network[n].blocks[b])]
    IN go(Len(network))

DeepBuilt == Built /\ last.op = "__init__" /\ Sum(args.layers) > 1

\* equal rates for drop_path_rate = 0, strictly increasing ones otherwise
Ascending(rates) ==
    \A k \in 1..(Len(rates) - 1) :
       IF IsZero(args.drop_path_rate) THEN rates[k] = rates[k + 1]
       ELSE FLess(rates[k], rates[k + 1])

\* C23 (as stated): when sum(layers) > 1 the rates ascend in network order
\* and none is above drop_path_rate
C23_AscendingWithinRate ==
    DeepBuilt =>
       /\ Ascending(RatesOf(self["network"]))
       /\ \A k \in 1..Len(RatesOf(self["network"])) :
             ~FLess(args.drop_path_rate, RatesOf(self["network"])[k])

\* C23 (amended): when sum(layers) > 1 the rates ascend in network order,
\* and each is at most drop_path_rate or is the double next above it
C23_AscendingWithinOneUlp ==
    DeepBuilt =>
       /\ Ascending(RatesOf(self["network"]))
       /\ \A k \in 1..Len(RatesOf(self["network"])) :
             \/ ~FLess(args.drop_path_rate, RatesOf(self["network"])[k])
             \/ /\ ~IsZero(args.drop_path_rate)
                /\ RatesOf(self["network"])[k] = FSucc(args.drop_path_rate)

\* rate 0.1 over 4 blocks in 3 stages: the rates ascend across the stage
\* boundaries and the last is the double after 0.1
C23_Witness ==
    /\ DeepBuilt
    /\ args.drop_path_rate = Rate01
    /\ args.layers = <<1, 2, 0, 1>>
    /\ Ascending(RatesOf(self["network"]))
    /\ RatesOf(self["network"])[1] = FZero
    /\ RatesOf(self["network"])[4] = FSucc(Rate01)

(***************************************************************************)
(* The FORK_LAST3 environment variable: models built and called while the  *)
(* variable is unset, empty or "1", and changed in between.                *)
(***************************************************************************)
EnvValues == {None, "", "1"}

EnvArgs ==
    {Args(<<1, 0, 1, 1>>, d, Given(<<4, 4, 4, 4>>), ds, MaxClasses, FZero, f,
          DefaultPatch) :
        d \in {PresetDims, <<64, 64, 64, 64>>},
        ds \in {<<TRUE, TRUE, TRUE, TRUE>>, <<FALSE, FALSE, FALSE, FALSE>>},
        f \in BOOLEAN}

EnvInputs == {<<1, 3, 32, 32>>, <<2, 3, 32, 64>>}

EnvInit == args \in EnvArgs /\ environ \in EnvValues /\ Fresh

\* os.environ['FORK_LAST3'] = v, or its removal, between the calls
SetEnv ==
    /\ \E v \in EnvValues \ {environ} :
          /\ environ' = v
          /\ last' = [op |-> "setenv", arg |-> <<v>>, raised |-> None]
    /\ result' = None
    /\ UNCHANGED <<args, phase, self, files, log, pending, generator>>

EnvForward == ForwardOn(EnvInputs)

EnvNext == Construct \/ SetEnv \/ EnvForward

EnvSpec == EnvInit /\ [][EnvNext]_vars

(***************************************************************************)
(* C24: what FORK_LAST3 changes.                                           *)
(***************************************************************************)
\* the constructor has just returned; environ is what it read
JustBuilt == phase = "built" /\ last.op = "__init__"

\* norm0 is the identity and the other three output norms are the
\* configured normalization
Last3Normalized ==
    /\ self[NormName(Item(out_indices, 0))] = Identity
    /\ \A j \in 1..3 :
          self[NormName(Item(out_indices, j))]
            = NormLayer(args.norm_layer, Item(args.embed_dims, j))

\* C24: a feature-pyramid model built while FORK_LAST3 is set has the
\* identity as stage-0 output operator and the configured norm for stages
\* 1-3, and its forward returns 4 feature maps; a classification model is
\* the one built without the variable; changing the variable after
\* construction leaves the model, and so what forward returns, unchanged
C24_EnvReadOnlyAtConstruction ==
    /\ [](/\ (JustBuilt /\ args.fork_feat /\ Truthy(environ))
                => Last3Normalized
          /\ (phase = "built" /\ last.op = "forward" /\ args.fork_feat)
                => (last.raised = None /\ Len(result) = 4)
          /\ (JustBuilt /\ ~args.fork_feat)
                => self = PoolFormer__init__(args, None).self)
    /\ [][last'.op = "setenv" => self' = self]_vars

====
